---- MODULE Spec2Model ----
(***************************************************************************)
(* A model of the luminous particle sphere: the glyph extractor            *)
(* (getUniqueWords), the atlas builder (createWordTextureAtlas), the        *)
(* fragment stage's atlas lookup, the particle-field generator (the        *)
(* geometry useMemo of ParticleSphere) and the scale animation of Scene.   *)
(*                                                                         *)
(* Numbers are exact rationals kept as integer numerators over the fixed   *)
(* denominators named below; characters are UTF-16 code units, which is    *)
(* what String.prototype.split('') yields.                                 *)
(***************************************************************************)
EXTENDS Integers, Sequences, FiniteSets

VARIABLES
    \* --- getUniqueWords ---
    text,          \* the source text, a sequence of UTF-16 code units
    uniqueWords,   \* the glyph list (result of getUniqueWords)
    wordsPc,       \* "call" before getUniqueWords returned, "done" after
    \* --- createWordTextureAtlas and the fragment stage ---
    hasDocument,   \* typeof document !== 'undefined'
    hasCtx,        \* canvas.getContext('2d') returned a context
    atlas,         \* the returned { texture, cols, rows }
    fillCalls,     \* the ctx.fillText calls made, in order
    frag,          \* the last fragment shaded
    atlasPc,       \* "call", "built"
    \* --- the particle-field generator ---
    count, radius, cTop, cBottom,
    positions, colors, randoms, scales, wordIndexes,
    i,             \* the loop's accepted-sample counter
    iters,         \* loop iterations run so far (saturates above the cap)
    result,        \* the five typed arrays returned
    genPc,         \* "loop", "done"
    \* --- Scene's useFrame ---
    isSplit,       \* App's isSplit state
    scale,         \* groupRef.current.scale, a Vector3
    frames         \* frames rendered so far

wordVars  == <<text, uniqueWords, wordsPc>>
atlasVars == <<hasDocument, hasCtx, atlas, fillCalls, frag, atlasPc>>
genVars   == <<count, radius, cTop, cBottom, positions, colors, randoms,
               scales, wordIndexes, i, iters, result, genPc>>
sceneVars == <<isSplit, scale, frames>>
vars      == <<wordVars, atlasVars, genVars, sceneVars>>

None == "none"

(***************************************************************************)
(* Bounds of the model.                                                    *)
(***************************************************************************)
MaxTextLen == 3     \* longest source text, in code units
MaxGlyphs  == 6     \* largest glyph list handed to the atlas builder
UVDen      == 2     \* point-local UVs are k / UVDen, k in 0..UVDen
MaxCount   == 2     \* largest particle count asked of the generator
MaxGenGlyphs == 2   \* largest glyph list handed to the generator
CapFactor  == 1     \* the iteration cap is CapFactor * count
MaxFrames  == 3     \* frames rendered in a run of the scene

(***************************************************************************)
(* Exact arithmetic on JS numbers: a fraction is [num, den] with den > 0,  *)
(* kept in lowest terms.                                                   *)
(***************************************************************************)
Abs(x) == IF x < 0 THEN -x ELSE x

RECURSIVE GCD(_, _)
GCD(a, b) == IF b = 0 THEN a ELSE GCD(b, a % b)

Frac(n, d) ==
    LET g == GCD(Abs(n), Abs(d))
        s == IF d < 0 THEN -1 ELSE 1
    IN  [num |-> s * (n \div g), den |-> s * (d \div g)]

FracMul(p, q) ==
    LET g1 == GCD(Abs(p.num), q.den)
        g2 == GCD(Abs(q.num), p.den)
    IN  Frac((p.num \div g1) * (q.num \div g2), (p.den \div g2) * (q.den \div g1))

FracDiv(p, q) == FracMul(p, Frac(q.den, q.num))
FracAdd(p, q) ==
    LET g == GCD(p.den, q.den)
    IN  Frac(p.num * (q.den \div g) + q.num * (p.den \div g), (p.den \div g) * q.den)
FracSub(p, q) == FracAdd(p, [num |-> -q.num, den |-> q.den])
FracGT(p, q)  == p.num * q.den > q.num * p.den
FracGE(p, q)  == ~FracGT(q, p)
FracAbs(p)    == [num |-> Abs(p.num), den |-> p.den]

(***************************************************************************)
(* getUniqueWords                                                          *)
(***************************************************************************)
\* The character class of the regex /[.,;，,。 \n\t]/g, as code units:
\* '.' ',' ';' U+FF0C ',' U+3002 ' ' '\n' '\t'
StripClass == {46, 44, 59, 65292, 12290, 32, 10, 9}

\* Code units a text is built from: the stripped class, two letters, one
\* CJK character and the two halves of a surrogate pair (U+1F600).
Alphabet == StripClass \cup {97, 98, 26376, 55357, 56832}

Texts == UNION {[1..n -> Alphabet] : n \in 0..MaxTextLen}

\* text.replace(/[...]/g, '')
replaceStripped(t) == SelectSeq(t, LAMBDA c : c \notin StripClass)

\* [...new Set(units)]: a Set iterates in insertion order, and adding a value
\* already present leaves the Set as it is.
RECURSIVE SetSpread(_, _)
SetSpread(units, acc) ==
    IF units = << >> THEN acc
    ELSE LET c == Head(units)
         IN  SetSpread(Tail(units),
                       IF \E k \in 1..Len(acc) : acc[k] = c
                       THEN acc ELSE Append(acc, c))

\* A plausible slip: the spread of the split text without the Set.
getUniqueWords_NoSet(t) == replaceStripped(t)

getUniqueWords(t) ==
    LET cleanText == replaceStripped(t)
    IN  SetSpread(cleanText, << >>)

ExtractWords ==
    /\ wordsPc = "call"
    /\ uniqueWords' = getUniqueWords(text)
    /\ wordsPc' = "done"
    /\ UNCHANGED <<text, atlasVars, genVars, sceneVars>>

\* A glyph list of n distinct glyphs, as the extractor yields them.
GlyphList(n) == getUniqueWords([k \in 1..n |-> 96 + k])

(***************************************************************************)
(* createWordTextureAtlas                                                  *)
(***************************************************************************)
AtlasSize == 2048

\* Math.ceil(Math.sqrt(n)) for an integer n >= 0: the least c with c*c >= n.
RECURSIVE CeilSqrtFrom(_, _)
CeilSqrtFrom(n, c) == IF c * c >= n THEN c ELSE CeilSqrtFrom(n, c + 1)
CeilSqrt(n) == CeilSqrtFrom(n, 0)

\* Math.ceil(a / b) for integers a, b >= 0.  0 / 0 is NaN and Math.ceil(NaN)
\* is NaN; a / 0 with a > 0 is Infinity.  A JS number is modelled here as
\* [nan, inf, val].
CeilDiv(a, b) ==
    IF b = 0
    THEN [nan |-> (a = 0), inf |-> (a # 0), val |-> 0]
    ELSE [nan |-> FALSE, inf |-> FALSE, val |-> (a + b - 1) \div b]

\* A plausible slip in the cell placement: the row taken as a remainder.
CellRow_Mod(k, cols) == k % cols

CellCol(k, cols) == k % cols
CellRow(k, cols) == k \div cols

\* ctx.measureText(word).width for a font of the given size: the glyphs are
\* taken to fill the em square, as CJK characters do (width = font size).
measureText(word, fontSize) == fontSize

\* One fillText call of the forEach body, for the word at ordinal k.
\* centerX = col * cellWidth + cellWidth / 2 = (2 col + 1) * size / (2 cols),
\* kept as the numerator over 2 * cols (centerY likewise over 2 * rows).
DrawCall(word, k, cols, rows) ==
    LET col == CellCol(k, cols)
        row == CellRow(k, cols)
        cellWidth  == Frac(AtlasSize, cols)
        cellHeight == Frac(AtlasSize, rows)
        fontSize0 == FracMul(cellHeight, Frac(3, 4))
        textWidth == measureText(word, fontSize0)
        maxWidth  == FracMul(cellWidth, Frac(9, 10))
        fontSize == IF FracGT(textWidth, maxWidth)
                    THEN FracMul(fontSize0, FracDiv(maxWidth, textWidth))
                    ELSE fontSize0
    IN  [word |-> word, col |-> col, row |-> row,
         centerX2 |-> (2 * col + 1) * AtlasSize,
         centerY2 |-> (2 * row + 1) * AtlasSize,
         font |-> fontSize]

NoFrag == [idx |-> -1]

createWordTextureAtlas ==
    /\ atlasPc = "call"
    /\ atlasPc' = "built"
    /\ IF ~hasDocument
       THEN /\ atlas' = [texture |-> "blank", cols |-> 1, rows |-> 1, rowsNaN |-> FALSE]
            /\ fillCalls' = << >>
       ELSE LET n    == Len(uniqueWords)
                cols == CeilSqrt(n)
                rows == CeilDiv(n, cols)
            IN  IF ~hasCtx
                THEN /\ atlas' = [texture |-> "blank", cols |-> 1, rows |-> 1,
                                  rowsNaN |-> FALSE]
                     /\ fillCalls' = << >>
                ELSE /\ fillCalls' = [k \in 1..n |->
                                        DrawCall(uniqueWords[k], k - 1, cols, rows.val)]
                     /\ atlas' = [texture |-> "canvas", cols |-> cols,
                                  rows |-> rows.val, rowsNaN |-> rows.nan]
    /\ UNCHANGED <<hasDocument, hasCtx, frag, wordVars, genVars, sceneVars>>

(***************************************************************************)
(* The fragment stage's atlas lookup (fragment shader, main).              *)
(***************************************************************************)
Int1(n) == Frac(n, 1)

\* floor(vWordIndex + 0.5), for the integer-valued attribute
RoundIndex(wordIndex) == (2 * wordIndex + 1) \div 2

FragColIndex(index, cols) == index % cols             \* mod(index, cols)
FragRowIndex(index, cols, rows) == index \div cols    \* floor(index / cols)

\* (colIndex + uv.x) / cols
AtlasU(colIndex, uvx, cols) == FracDiv(FracAdd(Int1(colIndex), uvx), Int1(cols))

\* A plausible slip: the leading "1.0 -" left out, rows counted from v = 0.
AtlasV_NoFlip(rowIndex, uvy, rows) ==
    FracDiv(FracSub(Int1(rowIndex + 1), uvy), Int1(rows))

\* 1.0 - (rowIndex + 1.0 - uv.y) / rows
AtlasV(rowIndex, uvy, rows) ==
    FracSub(Int1(1), FracDiv(FracSub(Int1(rowIndex + 1), uvy), Int1(rows)))

\* One fragment of a point whose glyph index is idx, at gl_PointCoord
\* (pu, pv) / UVDen.  The stage runs with the grid the builder returned
\* (uAtlasGrid), in a browser, and is modelled for the grids that are
\* numbers: a 1 x 1 grid without a 2d context, cols x rows with one.
Fragment ==
    /\ atlasPc = "built"
    /\ hasDocument
    /\ ~atlas.rowsNaN
    /\ \E idx \in 0..(Len(uniqueWords) - 1), pu \in 0..UVDen, pv \in 0..UVDen :
         LET uvx   == Frac(pu, UVDen)
             uvy   == FracSub(Int1(1), Frac(pv, UVDen))    \* uv.y = 1.0 - uv.y
             index == RoundIndex(idx)
             colIndex == FragColIndex(index, atlas.cols)
             rowIndex == FragRowIndex(index, atlas.cols, atlas.rows)
         IN  frag' = [idx |-> idx, u |-> Frac(pu, UVDen), v |-> Frac(pv, UVDen),
                      colIndex |-> colIndex, rowIndex |-> rowIndex,
                      atlasU |-> AtlasU(colIndex, uvx, atlas.cols),
                      atlasV |-> AtlasV(rowIndex, uvy, atlas.rows)]
    /\ UNCHANGED <<hasDocument, hasCtx, atlas, fillCalls, atlasPc,
                   wordVars, genVars, sceneVars>>

(***************************************************************************)
(* The particle-field generator: the geometry useMemo of ParticleSphere.   *)
(***************************************************************************)
Half == Frac(1, 2)

\* The values Math.random() is sampled at, per call site.  Each is in [0,1).
UDraws      == {Frac(1, 4)}                          \* u: theta = pi / 2
VDraws      == {Int1(0), Half, Frac(9, 10)}          \* v: cos(phi) = -1, 0, 4/5
JitterDraws == {Half, Frac(3, 4)}                    \* r = R, 1.025 R
AcceptDraws == {Int1(0), Frac(3, 4)}                 \* the density test's draw
SeedDraws   == {Half}                                \* the three aRandom draws
ScaleDraws  == {Half}                                \* the scale jitter's draw
IndexDraws  == {Int1(0), Frac(3, 4)}                 \* the word index's draw

\* new THREE.Color('#rrggbb'): each channel byte / 255
Color(bytes) == [k \in 1..3 |-> Frac(bytes[k], 255)]

\* (colorTop, colorBottom): App's '#FFB800' over '#FFFFFF', and pure red
\* over pure blue.
ColorProps == { << <<255, 184, 0>>, <<255, 255, 255>> >>,
                << <<255, 0, 0>>,   <<0, 0, 255>> >> }

\* radius: the component's default 2.5, and the 3.0 App passes
Radii == {Frac(5, 2), Int1(3)}

\* cos and sin of theta = 2 pi u, for u a multiple of a quarter turn
CosTheta(u) == CASE u = Int1(0)    -> Int1(1)
                 [] u = Frac(1, 4) -> Int1(0)
                 [] u = Half       -> Int1(-1)
                 [] u = Frac(3, 4) -> Int1(0)
SinTheta(u) == CASE u = Int1(0)    -> Int1(0)
                 [] u = Frac(1, 4) -> Int1(1)
                 [] u = Half       -> Int1(0)
                 [] u = Frac(3, 4) -> Int1(-1)

\* phi = acos(2 v - 1) lies in [0, pi]: cos(phi) = 2 v - 1 and
\* sin(phi) = sqrt(1 - cos(phi)^2) >= 0, rational for the sampled v.
ISqrt(n) == CHOOSE k \in 0..n : k * k = n
CosPhi(v) == FracSub(FracMul(Int1(2), v), Int1(1))
SinPhi(v) ==
    LET c  == CosPhi(v)
        s2 == FracSub(Int1(1), FracMul(c, c))
    IN  Frac(ISqrt(s2.num), ISqrt(s2.den))

\* radius * (0.95 + Math.random() * 0.1)
JitteredRadius(rad, j) == FracMul(rad, FracAdd(Frac(95, 100), FracMul(j, Frac(1, 10))))

Pow5(d) == FracMul(FracMul(FracMul(d, d), FracMul(d, d)), d)

\* Math.random() > 0.25 + 0.75 * Math.pow(densityVal, 2.5), decided exactly:
\* a > 1/4 + 3/4 d^(5/2)  iff  q > d^(5/2) for q = (a - 1/4) / (3/4)
\*                        iff  q > 0 and q^2 > d^5        (d >= 0).
Rejected(a, densityVal) ==
    LET q == FracDiv(FracSub(a, Frac(1, 4)), Frac(3, 4))
    IN  /\ q.num > 0
        /\ FracGT(FracMul(q, q), Pow5(densityVal))

\* A plausible slip: interpolating by the density value |y| / R.
LerpT_ByDensity(normalizedY) == FracAbs(normalizedY)

\* t = (normalizedY + 1) / 2
LerpT(normalizedY) == FracDiv(FracAdd(normalizedY, Int1(1)), Int1(2))

\* tempColor.copy(cBottom).lerp(cTop, t): c += (cTop - c) * t per channel
Lerp(bottom, top, t) ==
    [k \in 1..3 |-> FracAdd(bottom[k], FracMul(FracSub(top[k], bottom[k]), t))]

\* (2.5 - densityVal * 1.5) * (0.8 + Math.random() * 0.5)
Scale(densityVal, sd) ==
    LET sizeBase == FracSub(Frac(5, 2), FracMul(densityVal, Frac(3, 2)))
    IN  FracMul(sizeBase, FracAdd(Frac(4, 5), FracMul(sd, Half)))

FracFloor(p) == p.num \div p.den

\* A plausible slip: Math.round in place of Math.floor.
WordIndex_Round(wd, g) == FracFloor(FracAdd(FracMul(wd, Int1(g)), Half))

\* Math.floor(Math.random() * uniqueWords.length)
WordIndex(wd, g) == FracFloor(FracMul(wd, Int1(g)))

\* A plausible slip: <= in the loop condition.
LoopCond_LE(pos, c) == Len(pos) <= c * 3

\* positions.length < count * 3
LoopCond(pos, c) == Len(pos) < c * 3

\* The iteration cap the design asks for, CapFactor * count.  The loop has
\* none: iters only observes the loop, and stops counting above the cap.
IterCap(c) == CapFactor * c
Tick(n, c) == IF n > IterCap(c) THEN n ELSE n + 1

\* One pass through the body of the while loop.
Iterate ==
    /\ genPc = "loop"
    /\ LoopCond(positions, count)
    /\ iters' = Tick(iters, count)
    /\ \E u \in UDraws, v \in VDraws, j \in JitterDraws, a \in AcceptDraws :
         LET r == JitteredRadius(radius, j)
             x == FracMul(FracMul(r, SinPhi(v)), CosTheta(u))
             y == FracMul(r, CosPhi(v))
             z == FracMul(FracMul(r, SinPhi(v)), SinTheta(u))
             normalizedY == FracDiv(y, radius)
             densityVal  == FracAbs(normalizedY)
         IN  IF Rejected(a, densityVal)
             THEN \* continue
                  UNCHANGED <<positions, colors, randoms, scales, wordIndexes, i>>
             ELSE \E s1 \in SeedDraws, s2 \in SeedDraws, s3 \in SeedDraws,
                     sd \in ScaleDraws, wd \in IndexDraws :
                    LET tempColor == Lerp(cBottom, cTop, LerpT(normalizedY))
                    IN  /\ positions' = positions \o <<x, y, z>>
                        /\ colors' = colors \o tempColor
                        /\ randoms' = randoms \o <<s1, s2, s3>>
                        /\ scales' = Append(scales, Scale(densityVal, sd))
                        /\ wordIndexes' =
                               Append(wordIndexes, WordIndex(wd, Len(uniqueWords)))
                        /\ i' = i + 1
    /\ UNCHANGED <<count, radius, cTop, cBottom, result, genPc,
                   wordVars, atlasVars, sceneVars>>

\* new Float32Array(list): an array of the list's length.  The rounding of
\* each value to single precision is monotone and exact on 0, 1 and the
\* small integers; the values are kept exact here.
Float32Array(list) == [k \in 1..Len(list) |-> list[k]]

\* The loop's exit and the return statement.
Return ==
    /\ genPc = "loop"
    /\ ~LoopCond(positions, count)
    /\ result' = [positions   |-> Float32Array(positions),
                  colors      |-> Float32Array(colors),
                  randoms     |-> Float32Array(randoms),
                  scales      |-> Float32Array(scales),
                  wordIndexes |-> Float32Array(wordIndexes)]
    /\ genPc' = "done"
    /\ UNCHANGED <<count, radius, cTop, cBottom, positions, colors, randoms,
                   scales, wordIndexes, i, iters, wordVars, atlasVars, sceneVars>>

(***************************************************************************)
(* Scene: the useFrame callback of App.tsx and the two setIsSplit calls.   *)
(***************************************************************************)
\* Frame deltas in seconds: a repeated frame, 60 fps, and the long frames of
\* a stalled or backgrounded tab.
DeltaDraws == {Int1(0), Frac(1, 60), Frac(1, 8), Frac(1, 4), Half}

\* Vector3.lerp(v, alpha): each component += (v - component) * alpha
Vector3Lerp(self, v, alpha) ==
    [k \in 1..3 |-> FracAdd(self[k], FracMul(FracSub(v[k], self[k]), alpha))]

TargetScale(split) == IF split THEN Frac(8, 10) ELSE Int1(1)

Frame ==
    /\ frames < MaxFrames
    /\ \E delta \in DeltaDraws :
         LET targetScale == TargetScale(isSplit)
             step == FracMul(delta, Int1(4))
         IN  scale' = Vector3Lerp(scale, <<targetScale, targetScale, targetScale>>, step)
    /\ frames' = frames + 1
    /\ UNCHANGED <<isSplit, wordVars, atlasVars, genVars>>

\* onSphereClick: setIsSplit(true), on a double click of the sphere
SphereClick ==
    /\ isSplit' = TRUE
    /\ UNCHANGED <<scale, frames, wordVars, atlasVars, genVars>>

\* the Close View button, which takes clicks only while isSplit holds
CloseView ==
    /\ isSplit
    /\ isSplit' = FALSE
    /\ UNCHANGED <<scale, frames, wordVars, atlasVars, genVars>>

(***************************************************************************)
(* Idle values of the parts a specification does not exercise.             *)
(***************************************************************************)
IdleAtlas ==
    /\ hasDocument = TRUE /\ hasCtx = TRUE
    /\ atlas = None /\ fillCalls = << >> /\ frag = NoFrag /\ atlasPc = "idle"

IdleGen ==
    /\ count = 0 /\ radius = 0 /\ cTop = None /\ cBottom = None
    /\ positions = << >> /\ colors = << >> /\ randoms = << >>
    /\ scales = << >> /\ wordIndexes = << >>
    /\ i = 0 /\ iters = 0 /\ result = None /\ genPc = "idle"

IdleScene == isSplit = FALSE /\ scale = None /\ frames = 0

(***************************************************************************)
(* SpecWords: getUniqueWords applied to every text of the bound.           *)
(***************************************************************************)
InitWords ==
    /\ text \in Texts
    /\ uniqueWords = None
    /\ wordsPc = "call"
    /\ IdleAtlas /\ IdleGen /\ IdleScene

NextWords == ExtractWords

SpecWords == InitWords /\ [][NextWords]_vars

(***************************************************************************)
(* SpecAtlas: the atlas is built for a glyph list, then fragments of       *)
(* points carrying its glyph indices are shaded.                           *)
(***************************************************************************)
InitAtlas ==
    /\ \E n \in 0..MaxGlyphs :
         /\ text = [k \in 1..n |-> 96 + k]
         /\ uniqueWords = getUniqueWords(text)
    /\ wordsPc = "done"
    /\ hasDocument \in BOOLEAN
    /\ hasCtx \in BOOLEAN
    /\ hasCtx => hasDocument
    /\ atlas = None /\ fillCalls = << >> /\ frag = NoFrag /\ atlasPc = "call"
    /\ IdleGen /\ IdleScene

NextAtlas == createWordTextureAtlas \/ Fragment

SpecAtlas == InitAtlas /\ [][NextAtlas]_vars

(***************************************************************************)
(* SpecGen: the generator run for a count, a radius, two colors and a      *)
(* glyph list.                                                             *)
(***************************************************************************)
InitGen ==
    /\ \E n \in 0..MaxGenGlyphs :
         /\ text = [k \in 1..n |-> 96 + k]
         /\ uniqueWords = getUniqueWords(text)
    /\ wordsPc = "done"
    /\ count \in 1..MaxCount
    /\ radius \in Radii
    /\ \E cp \in ColorProps : cTop = Color(cp[1]) /\ cBottom = Color(cp[2])
    /\ positions = << >> /\ colors = << >> /\ randoms = << >>
    /\ scales = << >> /\ wordIndexes = << >>
    /\ i = 0 /\ iters = 0 /\ result = None /\ genPc = "loop"
    /\ IdleAtlas /\ IdleScene

NextGen == Iterate \/ Return

SpecGen == InitGen /\ [][NextGen]_vars

(***************************************************************************)
(* SpecScene: frames and view toggles, from the mounted scene.             *)
(***************************************************************************)
InitScene ==
    /\ isSplit = FALSE
    /\ scale = <<Int1(1), Int1(1), Int1(1)>>
    /\ frames = 0
    /\ text = << >> /\ uniqueWords = None /\ wordsPc = "idle"
    /\ IdleAtlas /\ IdleGen

NextScene == Frame \/ SphereClick \/ CloseView

SpecScene == InitScene /\ [][NextScene]_vars

(***************************************************************************)
(* Claims about getUniqueWords.                                            *)
(***************************************************************************)
\* The characters the extractor is to strip: comma, period, the full-width
\* comma U+FF0C, the ideographic full stop U+3002, space, tab, newline.
StrippedChars == {44, 46, 65292, 12290, 32, 9, 10}

FirstIndex(t, c) == CHOOSE p \in 1..Len(t) : t[p] = c /\ \A q \in 1..(p - 1) : t[q] # c

\* C3: the list getUniqueWords returns has no duplicate entry, its entries
\* occur in the text and stand in the order of their first occurrence there,
\* none of them is a stripped character, and the empty text yields the empty
\* list.
C3_UniqueFirstSeenClean ==
    wordsPc = "done" =>
        /\ \A a, b \in 1..Len(uniqueWords) :
              a # b => uniqueWords[a] # uniqueWords[b]
        /\ \A a \in 1..Len(uniqueWords) :
              /\ uniqueWords[a] \notin StrippedChars
              /\ \E p \in 1..Len(text) : text[p] = uniqueWords[a]
        /\ \A a, b \in 1..Len(uniqueWords) :
              a < b => FirstIndex(text, uniqueWords[a]) < FirstIndex(text, uniqueWords[b])
        /\ (text = << >> => uniqueWords = << >>)

\* A text with a repeated glyph around a stripped character, two glyphs out.
C3_Witness ==
    /\ wordsPc = "done"
    /\ Len(text) = 3
    /\ text[1] = text[3] /\ text[1] \notin StrippedChars
    /\ text[2] \in StrippedChars
    /\ uniqueWords = <<text[1]>>

(***************************************************************************)
(* Claims about createWordTextureAtlas and the fragment stage.             *)
(***************************************************************************)
Drawn == atlasPc = "built" /\ hasDocument /\ hasCtx

\* C4: for N >= 1 glyphs on a drawing surface, cols is the least integer
\* whose square is at least N, rows the least integer with rows * cols >= N,
\* glyph i is drawn in cell (i mod cols, floor(i / cols)), which lies in the
\* grid, and no two glyphs share a cell.
C4_GridAndCells ==
    (Drawn /\ Len(uniqueWords) >= 1) =>
        LET n == Len(uniqueWords) IN
        /\ ~atlas.rowsNaN
        /\ atlas.cols >= 1 /\ atlas.cols * atlas.cols >= n
        /\ (atlas.cols - 1) * (atlas.cols - 1) < n
        /\ atlas.rows >= 1 /\ atlas.rows * atlas.cols >= n
        /\ (atlas.rows - 1) * atlas.cols < n
        /\ Len(fillCalls) = n
        /\ \A k \in 1..n :
              /\ fillCalls[k].word = uniqueWords[k]
              /\ fillCalls[k].col \in 0..(atlas.cols - 1)
              /\ fillCalls[k].row \in 0..(atlas.rows - 1)
              /\ fillCalls[k].row * atlas.cols + fillCalls[k].col = k - 1
        /\ \A j, k \in 1..n :
              (fillCalls[j].col = fillCalls[k].col /\ fillCalls[j].row = fillCalls[k].row)
                  => j = k

\* Five glyphs drawn on a 3 x 2 grid, one cell left empty.
C4_Witness ==
    /\ Drawn
    /\ Len(fillCalls) = 5
    /\ atlas.cols = 3 /\ atlas.rows = 2
    /\ fillCalls[5].col = 1 /\ fillCalls[5].row = 1

\* C5: for an empty glyph list on a drawing surface the builder makes no
\* draw call and returns the grid cols = 1, rows = 1.
C5_EmptyGridOneByOne ==
    (Drawn /\ Len(uniqueWords) = 0) =>
        /\ fillCalls = << >>
        /\ ~atlas.rowsNaN
        /\ atlas.cols = 1
        /\ atlas.rows = 1

\* The rectangle of the cell the builder drew glyph idx in, in texture
\* coordinates: the canvas row r (0 = top) spans v from 1 - (r + 1) / rows
\* up to 1 - r / rows, the canvas being uploaded bottom row first.
CellOf(idx) == fillCalls[idx + 1]
CellLeft(c)   == Frac(c.col, atlas.cols)
CellRight(c)  == Frac(c.col + 1, atlas.cols)
CellBottom(c) == Frac(atlas.rows - c.row - 1, atlas.rows)
CellTop(c)    == Frac(atlas.rows - c.row, atlas.rows)

StrictlyInside(c) ==
    /\ FracGT(frag.atlasU, CellLeft(c)) /\ FracGT(CellRight(c), frag.atlasU)
    /\ FracGT(frag.atlasV, CellBottom(c)) /\ FracGT(CellTop(c), frag.atlasV)

InsideClosed(c) ==
    /\ FracGE(frag.atlasU, CellLeft(c)) /\ FracGE(CellRight(c), frag.atlasU)
    /\ FracGE(frag.atlasV, CellBottom(c)) /\ FracGE(CellTop(c), frag.atlasV)

Shaded == Drawn /\ frag.idx >= 0

\* C6 as stated: for every point-local UV in [0,1] x [0,1] the atlas UV lies
\* strictly inside the cell of the fragment's glyph and inside no other cell.
C6_StrictlyInsideCell ==
    Shaded =>
        /\ StrictlyInside(CellOf(frag.idx))
        /\ \A j \in 0..(Len(uniqueWords) - 1) :
              j # frag.idx => ~StrictlyInside(CellOf(j))

UVInterior ==
    /\ frag.u.num > 0 /\ frag.u.num < frag.u.den
    /\ frag.v.num > 0 /\ frag.v.num < frag.v.den

\* C6 amended: the atlas UV lies in the closed rectangle of the cell of the
\* fragment's glyph, strictly inside it when the point-local UV is strictly
\* inside the unit square, and never strictly inside another glyph's cell.
C6_InsideClosedCell ==
    Shaded =>
        /\ InsideClosed(CellOf(frag.idx))
        /\ UVInterior => StrictlyInside(CellOf(frag.idx))
        /\ \A j \in 0..(Len(uniqueWords) - 1) :
              j # frag.idx => ~StrictlyInside(CellOf(j))

\* A fragment on the left edge of a point whose glyph sits in the second
\* row and second column of the atlas.
C6_Witness ==
    /\ Shaded
    /\ CellOf(frag.idx).row = 1 /\ CellOf(frag.idx).col = 1
    /\ frag.u.num = 0
    /\ frag.v.num > 0 /\ frag.v.num < frag.v.den

(***************************************************************************)
(* Claims about the particle-field generator.                              *)
(***************************************************************************)
G == Len(uniqueWords)

\* C1: when the loop has not accepted count samples within its iteration
\* cap, it runs no further iteration: the generation has ended with a
\* failure reported to the caller.
C1_CapEndsGeneration ==
    (iters > IterCap(count) /\ i < count) => genPc = "failed"

ParticlesIn(a, width) == Len(a) = width * i

\* C2: after every iteration the five arrays hold the same number of
\* particles, at most count of them, and the arrays returned when the loop
\* ends have the lengths 3C, 3C, 3C, C and C.
C2_ExactlyCountParticles ==
    /\ genPc \in {"loop", "done"} =>
          /\ ParticlesIn(positions, 3) /\ ParticlesIn(colors, 3)
          /\ ParticlesIn(randoms, 3) /\ ParticlesIn(scales, 1)
          /\ ParticlesIn(wordIndexes, 1)
          /\ i <= count
    /\ genPc = "done" =>
          /\ Len(result.positions) = 3 * count
          /\ Len(result.colors) = 3 * count
          /\ Len(result.randoms) = 3 * count
          /\ Len(result.scales) = count
          /\ Len(result.wordIndexes) = count

\* A run that returned after at least one rejected candidate.
C2_Witness ==
    /\ genPc = "done"
    /\ count = 2
    /\ iters > count
    /\ Len(result.positions) = 6 /\ Len(result.wordIndexes) = 2

InUnit(x) == x.num >= 0 /\ x.num <= x.den

\* C7: every color component written to the color buffer lies in [0,1].
C7_ColorsInUnitRange ==
    /\ \A k \in 1..Len(colors) : InUnit(colors[k])
    /\ genPc = "done" => \A k \in 1..Len(result.colors) : InUnit(result.colors[k])

\* Particle k's y coordinate and its color channel ch.
YOf(k) == positions[3 * (k - 1) + 2]
ChannelOf(k, ch) == colors[3 * (k - 1) + ch]

\* C8 as stated: a particle with y = 0 has exactly the bottom color, and of
\* two particles the one with the larger |y| has each channel at least as
\* far along from the bottom color toward the top color.
C8_MonotonicInAbsY ==
    /\ \A k \in 1..i : \A ch \in 1..3 :
          YOf(k).num = 0 => ChannelOf(k, ch) = cBottom[ch]
    /\ \A j, k \in 1..i : \A ch \in 1..3 :
          FracGE(FracAbs(YOf(k)), FracAbs(YOf(j))) =>
              FracGE(FracMul(FracSub(ChannelOf(k, ch), ChannelOf(j, ch)),
                             FracSub(cTop[ch], cBottom[ch])), Int1(0))

\* C8 amended: the color is monotonic in the signed y / R.  A particle with
\* y = -R has exactly the bottom color, a particle with y = 0 the midpoint
\* of the bottom and top colors, a particle with -R <= y <= R has every
\* channel between the bottom and the top color, and of two particles the
\* one with the larger y has each channel at least as far along from the
\* bottom color toward the top color.
C8_MonotonicInSignedY ==
    /\ \A k \in 1..i : \A ch \in 1..3 :
          /\ YOf(k) = FracSub(Int1(0), radius) => ChannelOf(k, ch) = cBottom[ch]
          /\ YOf(k).num = 0 =>
                FracMul(Int1(2), ChannelOf(k, ch)) = FracAdd(cBottom[ch], cTop[ch])
          /\ FracGE(radius, FracAbs(YOf(k))) =>
                \/ FracGE(ChannelOf(k, ch), cBottom[ch]) /\ FracGE(cTop[ch], ChannelOf(k, ch))
                \/ FracGE(ChannelOf(k, ch), cTop[ch]) /\ FracGE(cBottom[ch], ChannelOf(k, ch))
    /\ \A j, k \in 1..i : \A ch \in 1..3 :
          FracGE(YOf(k), YOf(j)) =>
              FracGE(FracMul(FracSub(ChannelOf(k, ch), ChannelOf(j, ch)),
                             FracSub(cTop[ch], cBottom[ch])), Int1(0))

\* Two accepted particles, the first at the south pole at distance R, the
\* second on the equator.
C8_Witness ==
    /\ i = 2
    /\ YOf(1) = FracSub(Int1(0), radius)
    /\ YOf(2).num = 0
    /\ cTop # cBottom

\* C9: every glyph index is an integer in [0, G) when G > 0 and is 0 when
\* G = 0, in the list and in the array returned.
ValidIndex(w) ==
    /\ w \in Int
    /\ G > 0 => (0 <= w /\ w < G)
    /\ G = 0 => w = 0

C9_GlyphIndexInRange ==
    /\ \A k \in 1..Len(wordIndexes) : ValidIndex(wordIndexes[k])
    /\ genPc = "done" =>
          \A k \in 1..Len(result.wordIndexes) : ValidIndex(result.wordIndexes[k])

\* A returned array holding both the first and the last glyph's index.
C9_Witness ==
    /\ genPc = "done"
    /\ G = 2
    /\ Len(result.wordIndexes) = 2
    /\ result.wordIndexes[1] = G - 1
    /\ result.wordIndexes[2] = 0

(***************************************************************************)
(* Claims about the scale animation.                                       *)
(***************************************************************************)
\* C10: after any sequence of frames and view toggles from scale 1.0 the
\* group's scale lies within [0.8, 1.0].
C10_ScaleWithinRange ==
    frames > 0 =>
        \A k \in 1..3 : FracGE(scale[k], Frac(8, 10)) /\ FracGE(Int1(1), scale[k])

====
